---- MODULE Spec2Model ----
(***************************************************************************)
(* Model of infrastructure/scripts/validate-config.py: the ConfigValidator *)
(* rule engine, its unit parsers and the main driver.                      *)
(*                                                                         *)
(* Quantity strings are sequences of one-character strings, so that        *)
(* upper()/lower(), endswith() and slicing are computed as the code        *)
(* computes them.  YAML mappings are functions with string domains; a key  *)
(* that is absent is absent from the DOMAIN.  Documents are mappings (the  *)
(* ConfigDocument data model); quantity values are strings.                *)
(***************************************************************************)
EXTENDS Integers, Sequences, FiniteSets, TLC

VARIABLES
    pc,          \* position of the driver (or of a validator called on its own)
    args,        \* the parsed command line
    chartDir,    \* names that exist under the chart directory
    pending,     \* values files main has yet to validate
    errors,      \* ConfigValidator.errors
    warnings,    \* ConfigValidator.warnings
    trace,       \* validators started (the logger.info lines) and returned
    lastRead,    \* what the last open/yaml.safe_load gave
    ret,         \* return value of the last validator that returned
    report,      \* what was printed, <<>> before
    exitStatus,  \* the process's exit status, <<>> while running
    inp,         \* argument of a validator or parser called on its own
    out          \* result of a parser called on its own

vars == <<pc, args, chartDir, pending, errors, warnings, trace, lastRead, ret,
          report, exitStatus, inp, out>>

(***************************************************************************)
(* Bounds of the model.                                                    *)
(***************************************************************************)
\* Longest quantity string enumerated character by character.
MaxLen == 3
\* Most nodes a cluster-bootstrap document declares.
MaxNodes == 2
\* Most entries of the chart directory missing at once.
MaxMissing == 1

(***************************************************************************)
(* Program constants.                                                      *)
(***************************************************************************)
MilliPerCore == 1000
MBPerGB == 1024
RatioFactor == 4
CpuBudget == 4000
MemoryBudget == 8192
StorageBudgetGB == 100
VllmMinMemory == 1024

(***************************************************************************)
(* Characters and Python string primitives.                                *)
(***************************************************************************)
DigitChars == {"0", "1", "2", "3", "4", "5", "6", "7", "8", "9"}

DigitVal(c) ==
    CASE c = "0" -> 0 [] c = "1" -> 1 [] c = "2" -> 2 [] c = "3" -> 3
      [] c = "4" -> 4 [] c = "5" -> 5 [] c = "6" -> 6 [] c = "7" -> 7
      [] c = "8" -> 8 [] c = "9" -> 9

\* str.upper() and str.lower() on one character of the model's alphabet.
UpperChar(c) ==
    CASE c = "m" -> "M" [] c = "g" -> "G" [] c = "i" -> "I" [] c = "x" -> "X"
      [] OTHER -> c

LowerChar(c) ==
    CASE c = "M" -> "m" [] c = "G" -> "g" [] c = "I" -> "i" [] c = "X" -> "x"
      [] OTHER -> c

Upper(s) == [i \in 1..Len(s) |-> UpperChar(s[i])]

Lower(s) == [i \in 1..Len(s) |-> LowerChar(s[i])]

\* s.endswith(suf)
EndsWith(s, suf) ==
    /\ Len(s) >= Len(suf)
    /\ SubSeq(s, Len(s) - Len(suf) + 1, Len(s)) = suf

\* s[:-k]
DropLast(s, k) == SubSeq(s, 1, Len(s) - k)

IsDigits(s) == Len(s) > 0 /\ \A i \in 1..Len(s) : s[i] \in DigitChars

RECURSIVE DigitsValue(_)
DigitsValue(s) ==
    IF Len(s) = 0 THEN 0
    ELSE 10 * DigitsValue(DropLast(s, 1)) + DigitVal(s[Len(s)])

\* Results of the parsers: an int, None, or a raised ValueError.
IntResult(n) == [kind |-> "int", val |-> n]
NoneResult == [kind |-> "None", val |-> 0]
Raised == [kind |-> "raise", val |-> 0]

\* int(s) on a string of the model's alphabet (digits, letters, "."): a
\* non-empty run of digits, else ValueError.
PyInt(s) == IF IsDigits(s) THEN IntResult(DigitsValue(s)) ELSE Raised

\* Position of the first "." of s, 0 if none.
DotAt(s) ==
    IF \E i \in 1..Len(s) : s[i] = "."
    THEN CHOOSE i \in 1..Len(s) : s[i] = "." /\ \A j \in 1..(i - 1) : s[j] # "."
    ELSE 0

\* The first three fractional digits of frac, right padded with zeros.
Millis(frac) ==
    DigitsValue(SubSeq(frac \o <<"0", "0", "0">>, 1, 3))

\* int(float(s) * 1000): digits with an optional "." and at least one digit,
\* else ValueError.  The product is truncated toward zero; on the CPU strings
\* drawn below (below 10 cores, at most one fractional digit) the IEEE-754
\* product gives the same integer.
PyFloatTimes1000(s) ==
    LET d == DotAt(s)
        whole == IF d = 0 THEN s ELSE SubSeq(s, 1, d - 1)
        frac == IF d = 0 THEN <<>> ELSE SubSeq(s, d + 1, Len(s))
        okPart(p) == \A i \in 1..Len(p) : p[i] \in DigitChars
    IN  IF okPart(whole) /\ okPart(frac) /\ Len(whole) + Len(frac) > 0
        THEN IntResult(DigitsValue(whole) * MilliPerCore + Millis(frac))
        ELSE Raised

\* x * k for a parser result x (a raise propagates).
Times(x, k) == IF x.kind = "int" THEN IntResult(x.val * k) ELSE x

(***************************************************************************)
(* Unit parsers.                                                           *)
(***************************************************************************)
ParseCpuValue(cpu_str) ==
    IF cpu_str = <<>> THEN IntResult(0)
    ELSE LET s == Lower(cpu_str)
         IN  IF EndsWith(s, <<"m">>) THEN PyInt(DropLast(s, 1))
             ELSE PyFloatTimes1000(s)

\* A variant that matches the suffix without upper-casing the string first.
ParseMemorySizeCaseSensitive(memory_str) ==
    IF memory_str = <<>> THEN IntResult(0)
    ELSE LET s == memory_str
         IN  IF EndsWith(s, <<"M", "i">>) THEN PyInt(DropLast(s, 2))
             ELSE IF EndsWith(s, <<"G", "i">>) THEN Times(PyInt(DropLast(s, 2)), MBPerGB)
             ELSE IF EndsWith(s, <<"M">>) THEN PyInt(DropLast(s, 1))
             ELSE IF EndsWith(s, <<"G">>) THEN Times(PyInt(DropLast(s, 1)), MBPerGB)
             ELSE PyInt(s)

ParseMemorySize(memory_str) ==
    IF memory_str = <<>> THEN IntResult(0)
    ELSE LET s == Upper(memory_str)
         IN  IF EndsWith(s, <<"M", "I">>) THEN PyInt(DropLast(s, 2))
             ELSE IF EndsWith(s, <<"G", "I">>) THEN Times(PyInt(DropLast(s, 2)), MBPerGB)
             ELSE IF EndsWith(s, <<"M">>) THEN PyInt(DropLast(s, 1))
             ELSE IF EndsWith(s, <<"G">>) THEN Times(PyInt(DropLast(s, 1)), MBPerGB)
             ELSE PyInt(s)

ParseStorageSize(storage_str) ==
    IF storage_str = <<>> THEN NoneResult
    ELSE LET s == Upper(storage_str)
         IN  IF EndsWith(s, <<"G", "I">>) THEN Times(PyInt(DropLast(s, 2)), MBPerGB)
             ELSE IF EndsWith(s, <<"G">>) THEN Times(PyInt(DropLast(s, 1)), MBPerGB)
             ELSE IF EndsWith(s, <<"M", "I">>) THEN PyInt(DropLast(s, 2))
             ELSE IF EndsWith(s, <<"M">>) THEN PyInt(DropLast(s, 1))
             ELSE IF PyInt(s).kind = "raise" THEN NoneResult
             ELSE PyInt(s)

(***************************************************************************)
(* Mappings and findings.                                                  *)
(***************************************************************************)
EmptyDict == <<>>

\* k in d
Has(d, k) == k \in DOMAIN d

\* d.get(k, default)
Get(d, k, default) == IF k \in DOMAIN d THEN d[k] ELSE default

\* bool(d.get('enabled'))
Enabled(d) == Has(d, "enabled") /\ d["enabled"] = TRUE

\* bool(d.get(k)) for a plain string value
NonEmpty(d, k) == Has(d, k) /\ d[k] # ""

\* A message appended to errors or warnings: the rule, the service it names
\* and the number it carries (the quoted raw strings are left out).
Finding(tag, svc, num) == [tag |-> tag, svc |-> svc, num |-> num]

\* The validator object while a validator runs: the two lists, whether an
\* exception is propagating, and the value returned.
Validator(e, w) == [errors |-> e, warnings |-> w, exc |-> FALSE, ret |-> TRUE]

AddError(st, f) == [st EXCEPT !.errors = Append(@, f)]

AddWarning(st, f) == [st EXCEPT !.warnings = Append(@, f)]

Raise(st) == [st EXCEPT !.exc = TRUE]

Return(st, v) == [st EXCEPT !.ret = v]

\* return len(self.errors) == 0
ReturnNoErrors(st) == Return(st, Len(st.errors) = 0)

(***************************************************************************)
(* Section validators.  Each takes the validator object and gives it back  *)
(* with the findings appended; once an exception propagates (exc) nothing  *)
(* more is appended.                                                       *)
(***************************************************************************)
\* Runs step unless an exception is propagating.
Then(st, step(_)) == IF st.exc THEN st ELSE step(st)

\* A variant that warns from four times the request on, not above it.
RatioCheckFromFourTimes(req, lim, what, service, st) ==
    IF req.kind = "raise" \/ lim.kind = "raise" THEN Raise(st)
    ELSE IF lim.val < req.val
         THEN AddError(st, Finding(what \o " limit is less than request", service, 0))
    ELSE IF lim.val >= req.val * RatioFactor
         THEN AddWarning(st, Finding(what \o " limit is much higher than request", service, 0))
    ELSE st

\* One of the two comparisons of _validate_resource_ratio, on the parsed
\* request and limit.
RatioCheck(req, lim, what, service, st) ==
    IF req.kind = "raise" \/ lim.kind = "raise" THEN Raise(st)
    ELSE IF lim.val < req.val
         THEN AddError(st, Finding(what \o " limit is less than request", service, 0))
    ELSE IF lim.val > req.val * RatioFactor
         THEN AddWarning(st, Finding(what \o " limit is much higher than request", service, 0))
    ELSE st

CpuRatio(requests, limits, service, st) ==
    IF Has(requests, "cpu") /\ Has(limits, "cpu")
    THEN RatioCheck(ParseCpuValue(requests["cpu"]), ParseCpuValue(limits["cpu"]),
                    "CPU", service, st)
    ELSE st

MemoryRatio(requests, limits, service, st) ==
    IF Has(requests, "memory") /\ Has(limits, "memory")
    THEN RatioCheck(ParseMemorySize(requests["memory"]), ParseMemorySize(limits["memory"]),
                    "Memory", service, st)
    ELSE st

ValidateResourceRatio(resources, service, st) ==
    Then(CpuRatio(Get(resources, "requests", EmptyDict), Get(resources, "limits", EmptyDict),
                  service, st),
         LAMBDA s : MemoryRatio(Get(resources, "requests", EmptyDict),
                                Get(resources, "limits", EmptyDict), service, s))

ReplicaCount(api_config, st) ==
    IF Get(api_config, "replicaCount", 1) < 1
    THEN AddError(st, Finding("API replica count must be at least 1", "", 0))
    ELSE st

ApiResources(resources, st) ==
    IF Has(resources, "requests") /\ Has(resources, "limits")
    THEN ValidateResourceRatio(resources, "api", st)
    ELSE st

HealthCheck(api_config, st) ==
    IF /\ Has(api_config, "healthCheck")
       /\ Enabled(api_config["healthCheck"])
       /\ ~NonEmpty(api_config["healthCheck"], "path")
    THEN AddWarning(st, Finding("Health check path not specified for API", "", 0))
    ELSE st

ValidateApiConfig(api_config, st) ==
    Then(ApiResources(Get(api_config, "resources", EmptyDict), ReplicaCount(api_config, st)),
         LAMBDA s : HealthCheck(api_config, s))

\* `not size or not self._parse_storage_size(size)` on the parser's result r:
\* the database validator's test, in which None and 0 are both falsy.
StorageSizeCheck(size, r, st) ==
    IF size # <<>> /\ r.kind = "raise" THEN Raise(st)
    ELSE IF size = <<>> \/ r.kind = "None" \/ r.val = 0
         THEN AddError(st, Finding("Invalid database storage size", "", 0))
    ELSE st

DatabasePersistence(db_config, st) ==
    IF /\ Has(db_config, "primary")
       /\ Has(db_config["primary"], "persistence")
       /\ Enabled(db_config["primary"]["persistence"])
    THEN StorageSizeCheck(Get(db_config["primary"]["persistence"], "size", <<>>),
             ParseStorageSize(Get(db_config["primary"]["persistence"], "size", <<>>)), st)
    ELSE st

DatabaseName(auth, st) ==
    IF ~NonEmpty(auth, "database")
    THEN AddWarning(st, Finding("Database name not specified", "", 0))
    ELSE st

DatabasePassword(auth, st) ==
    IF Get(auth, "postgresPassword", "") = "changeme"
    THEN AddWarning(st, Finding("Default database password detected", "", 0))
    ELSE st

ValidateDatabaseConfig(db_config, st) ==
    Then(DatabasePersistence(db_config, st),
         LAMBDA s : DatabasePassword(Get(db_config, "auth", EmptyDict),
                        DatabaseName(Get(db_config, "auth", EmptyDict), s)))

VllmModel(vllm, st) ==
    IF ~NonEmpty(vllm, "model")
    THEN AddError(st, Finding("vLLM model not specified", "", 0))
    ELSE st

\* The memory test of the vLLM check on the parsed request m.
VllmMemoryCheck(memory, m, st) ==
    IF memory = <<>> THEN st
    ELSE IF m.kind = "raise" THEN Raise(st)
    ELSE IF m.val < VllmMinMemory
         THEN AddWarning(st, Finding("vLLM memory request may be too low", "", 0))
    ELSE st

VllmMemory(resources, st) ==
    IF Has(resources, "requests")
    THEN VllmMemoryCheck(Get(resources["requests"], "memory", <<>>),
                         ParseMemorySize(Get(resources["requests"], "memory", <<>>)), st)
    ELSE st

VllmPersistence(vllm, st) ==
    IF ~Enabled(Get(vllm, "persistence", EmptyDict))
    THEN AddWarning(st, Finding("vLLM persistence disabled", "", 0))
    ELSE st

Vllm(ai_config, st) ==
    IF Has(ai_config, "vllm") /\ Enabled(ai_config["vllm"])
    THEN Then(VllmMemory(Get(ai_config["vllm"], "resources", EmptyDict),
                         VllmModel(ai_config["vllm"], st)),
              LAMBDA s : VllmPersistence(ai_config["vllm"], s))
    ELSE st

AudioProcessor(ai_config, st) ==
    IF /\ Has(ai_config, "audioProcessor")
       /\ Enabled(ai_config["audioProcessor"])
       /\ ~NonEmpty(Get(ai_config["audioProcessor"], "env", EmptyDict), "DIART_MODEL")
    THEN AddWarning(st, Finding("Audio processor model not specified", "", 0))
    ELSE st

ValidateAiConfig(ai_config, st) ==
    Then(Vllm(ai_config, st), LAMBDA s : AudioProcessor(ai_config, s))

\* The resources mapping _validate_resource_limits reads for a service:
\* values[service] for api and frontend, the primary / master sub-mapping for
\* postgresql and redis; the empty mapping when the service is skipped.
ServiceResources(values, service) ==
    IF ~Has(values, service) THEN EmptyDict
    ELSE IF service = "postgresql"
         THEN Get(Get(values[service], "primary", EmptyDict), "resources", EmptyDict)
    ELSE IF service = "redis"
         THEN Get(Get(values[service], "master", EmptyDict), "resources", EmptyDict)
    ELSE Get(values[service], "resources", EmptyDict)

\* The services summed, in the order of the two loops.
CapacityServices == <<"api", "frontend", "postgresql", "redis">>

\* cpu of one service's requests, 0 for a service without requests
RequestedCpu(resources) ==
    IF Has(resources, "requests")
    THEN ParseCpuValue(Get(resources["requests"], "cpu", <<"0">>))
    ELSE IntResult(0)

\* memory of one service's requests, 0 for a service without requests
RequestedMemory(resources) ==
    IF Has(resources, "requests")
    THEN ParseMemorySize(Get(resources["requests"], "memory", <<"0">>))
    ELSE IntResult(0)

\* The parsed requests of the services, in order.
Requests(values) ==
    [i \in 1..Len(CapacityServices) |->
        [cpu |-> RequestedCpu(ServiceResources(values, CapacityServices[i])),
         memory |-> RequestedMemory(ServiceResources(values, CapacityServices[i]))]]

RECURSIVE Total(_, _)
Total(results, field) ==
    IF results = <<>> THEN 0
    ELSE results[1][field].val + Total(Tail(results), field)

\* A variant that warns from the budget on, not above it.
CpuCapacityFromBudget(total_cpu_requests, st) ==
    IF total_cpu_requests >= CpuBudget
    THEN AddWarning(st, Finding("Total CPU requests may exceed capacity", "",
                                total_cpu_requests))
    ELSE st

CpuCapacity(total_cpu_requests, st) ==
    IF total_cpu_requests > CpuBudget
    THEN AddWarning(st, Finding("Total CPU requests may exceed capacity", "",
                                total_cpu_requests))
    ELSE st

MemoryCapacity(total_memory_requests, st) ==
    IF total_memory_requests > MemoryBudget
    THEN AddWarning(st, Finding("Total memory requests may exceed capacity", "",
                                total_memory_requests))
    ELSE st

\* The two threshold tests on the totals.
CapacityWarnings(total_cpu_requests, total_memory_requests, st) ==
    MemoryCapacity(total_memory_requests, CpuCapacity(total_cpu_requests, st))

\* The loops of _validate_resource_limits on the parsed requests: the first
\* quantity that does not parse raises before any warning is appended.
CapacityCheck(results, st) ==
    IF \E i \in 1..Len(results) :
           results[i].cpu.kind = "raise" \/ results[i].memory.kind = "raise"
    THEN Raise(st)
    ELSE CapacityWarnings(Total(results, "cpu"), Total(results, "memory"), st)

ValidateResourceLimits(values, st) == CapacityCheck(Requests(values), st)

\* The persistence mapping _get_service_storage_size reads for a service.
ServicePersistence(values, service) ==
    IF service = "postgresql"
    THEN Get(Get(Get(values, "postgresql", EmptyDict), "primary", EmptyDict),
             "persistence", EmptyDict)
    ELSE IF service = "redis"
    THEN Get(Get(Get(values, "redis", EmptyDict), "master", EmptyDict),
             "persistence", EmptyDict)
    ELSE Get(Get(Get(values, "ai", EmptyDict), "vllm", EmptyDict),
             "persistence", EmptyDict)

\* `self._parse_storage_size(size) or 0`
OrZero(r) == IF r.kind = "None" THEN IntResult(0) ELSE r

\* Storage size in MB for a persistence mapping: 0 when persistence is off,
\* the size is empty or does not parse; a raise of the parser propagates.
StorageSizeOf(persistence) ==
    IF Enabled(persistence)
    THEN OrZero(ParseStorageSize(Get(persistence, "size", <<>>)))
    ELSE IntResult(0)

GetServiceStorageSize(values, service) ==
    StorageSizeOf(ServicePersistence(values, service))

\* services_with_storage
ServicesWithStorage(values) ==
    IF Has(values, "ai") /\ Has(values["ai"], "vllm")
    THEN <<"postgresql", "redis", "vllm">>
    ELSE <<"postgresql", "redis">>

StorageClass(values, st) ==
    IF ~NonEmpty(Get(values, "global", EmptyDict), "storageClass")
    THEN AddWarning(st, Finding("Global storage class not specified", "", 0))
    ELSE st

\* The sizes of the services with storage, in order.
StorageSizes(values, services) ==
    [i \in 1..Len(services) |-> [size |-> GetServiceStorageSize(values, services[i])]]

\* The loop and the threshold test of _validate_storage_config on the sizes.
StorageTotalCheck(sizes, total_storage, st) ==
    IF \E i \in 1..Len(sizes) : sizes[i].size.kind = "raise" THEN Raise(st)
    ELSE IF total_storage > StorageBudgetGB * MBPerGB
         THEN AddWarning(st, Finding("Total storage requests are quite large", "",
                                     total_storage))
    ELSE st

StorageTotal(sizes, st) == StorageTotalCheck(sizes, Total(sizes, "size"), st)

ValidateStorageConfig(values, st) ==
    StorageTotal(StorageSizes(values, ServicesWithStorage(values)), StorageClass(values, st))

(***************************************************************************)
(* Files.  What open() and yaml.safe_load give for a path: the file is     *)
(* missing, does not deserialize, or holds a mapping.                      *)
(***************************************************************************)
FileMissing == [status |-> "missing", doc |-> EmptyDict]

FileUnparsable == [status |-> "unparsable", doc |-> EmptyDict]

FileWith(doc) == [status |-> "ok", doc |-> doc]

RequiredSections == <<"api", "postgresql", "redis">>

RECURSIVE MissingSections(_, _, _)
MissingSections(values, sections, st) ==
    IF sections = <<>> THEN st
    ELSE MissingSections(values, Tail(sections),
             IF Has(values, Head(sections)) THEN st
             ELSE AddError(st, Finding("Missing required section", Head(sections), 0)))

ApiSection(values, st) ==
    IF Has(values, "api") THEN ValidateApiConfig(values["api"], st) ELSE st

DatabaseSection(values, st) ==
    IF Has(values, "postgresql") THEN ValidateDatabaseConfig(values["postgresql"], st)
    ELSE st

AiSection(values, st) ==
    IF Has(values, "ai") THEN ValidateAiConfig(values["ai"], st) ELSE st

\* The checks of validate_helm_values on a loaded document.
ValidateValues(values, st) ==
    Then(Then(Then(Then(Then(ApiSection(values, MissingSections(values, RequiredSections, st)),
                             LAMBDA s : DatabaseSection(values, s)),
                        LAMBDA s : AiSection(values, s)),
                   LAMBDA s : ValidateResourceLimits(values, s)),
              LAMBDA s : ValidateStorageConfig(values, s)),
         ReturnNoErrors)

ValidateHelmValues(file, st) ==
    IF file.status # "ok"
    THEN Return(AddError(st, Finding("Failed to parse values file", "", 0)), FALSE)
    ELSE ValidateValues(file.doc, st)

(***************************************************************************)
(* Structural validators.                                                  *)
(***************************************************************************)
RequiredFiles ==
    <<"Chart.yaml", "values.yaml", "values-development.yaml", "values-production.yaml">>

TemplateFiles == <<"deployment.yaml", "service.yaml", "configmap.yaml">>

TemplatesDir == "templates"

RECURSIVE MissingFiles(_, _, _)
MissingFiles(dir, names, st) ==
    IF names = <<>> THEN st
    ELSE MissingFiles(dir, Tail(names),
             IF Head(names) \in dir THEN st
             ELSE AddError(st, Finding("Missing required file", Head(names), 0)))

RECURSIVE MissingTemplates(_, _, _)
MissingTemplates(dir, names, st) ==
    IF names = <<>> THEN st
    ELSE MissingTemplates(dir, Tail(names),
             IF (TemplatesDir \o "/" \o Head(names)) \in dir THEN st
             ELSE AddWarning(st, Finding("Missing template file", Head(names), 0)))

Templates(dir, st) ==
    IF TemplatesDir \notin dir
    THEN AddError(st, Finding("Missing templates directory", "", 0))
    ELSE MissingTemplates(dir, TemplateFiles, st)

ValidateChartStructure(dir, st) ==
    ReturnNoErrors(Templates(dir, MissingFiles(dir, RequiredFiles, st)))

IsControlPlane(node) == Get(node, "role", "") = "control-plane"

\* A variant that stops at the first control-plane node without port mappings.
RECURSIVE PortMappingWarningsOnce(_, _)
PortMappingWarningsOnce(nodes, st) ==
    IF nodes = <<>> THEN st
    ELSE IF IsControlPlane(Head(nodes))
            /\ Get(Head(nodes), "extraPortMappings", <<>>) = <<>>
         THEN AddWarning(st, Finding("No port mappings defined for control plane", "", 0))
    ELSE PortMappingWarningsOnce(Tail(nodes), st)

RECURSIVE PortMappingWarnings(_, _)
PortMappingWarnings(nodes, st) ==
    IF nodes = <<>> THEN st
    ELSE PortMappingWarnings(Tail(nodes),
             IF IsControlPlane(Head(nodes))
                /\ Get(Head(nodes), "extraPortMappings", <<>>) = <<>>
             THEN AddWarning(st, Finding("No port mappings defined for control plane", "", 0))
             ELSE st)

KindDiscriminator(config, st) ==
    IF Get(config, "kind", "") # "Cluster"
    THEN AddError(st, Finding("Kind config must be of type 'Cluster'", "", 0))
    ELSE st

NoNodes(nodes, st) ==
    IF nodes = <<>>
    THEN AddError(st, Finding("At least one node must be defined", "", 0))
    ELSE st

NoControlPlane(nodes, st) ==
    IF \A i \in 1..Len(nodes) : ~IsControlPlane(nodes[i])
    THEN AddError(st, Finding("At least one control-plane node must be defined", "", 0))
    ELSE st

\* The checks of validate_kind_config on a loaded document.
KindChecks(config, st) ==
    PortMappingWarnings(Get(config, "nodes", <<>>),
        NoControlPlane(Get(config, "nodes", <<>>),
            NoNodes(Get(config, "nodes", <<>>), KindDiscriminator(config, st))))

\* A variant that goes on to the document checks after a file-level failure.
ValidateKindConfigNoShortCircuit(file, st) ==
    IF file.status # "ok"
    THEN ReturnNoErrors(KindChecks(file.doc,
             AddError(st, Finding("Missing Kind cluster configuration file", "", 0))))
    ELSE ReturnNoErrors(KindChecks(file.doc, st))

ValidateKindConfig(file, st) ==
    IF file.status = "missing"
    THEN Return(AddError(st, Finding("Missing Kind cluster configuration file", "", 0)),
                FALSE)
    ELSE IF file.status = "unparsable"
    THEN Return(AddError(st, Finding("Failed to parse Kind config", "", 0)), FALSE)
    ELSE ReturnNoErrors(KindChecks(file.doc, st))

(***************************************************************************)
(* Report and exit status.                                                 *)
(***************************************************************************)
\* The sections of the report: errors and warnings only when non-empty, the
\* success line when both are empty.
GenerateReport(e, w) ==
    [errors |-> e, warnings |-> w,
     sections |-> (IF e # <<>> THEN <<"ERRORS">> ELSE <<>>)
                  \o (IF w # <<>> THEN <<"WARNINGS">> ELSE <<>>)
                  \o (IF e = <<>> /\ w = <<>> THEN <<"All validations passed!">> ELSE <<>>)]

\* A variant that leaves --strict out of the test.
ExitCodeIgnoringStrict(e, w, strictFlag) == IF Len(e) > 0 THEN 1 ELSE 0

ExitCode(e, w, strictFlag) ==
    LET has_errors == Len(e) > 0
        has_warnings == Len(w) > 0
    IN  IF has_errors \/ (strictFlag /\ has_warnings) THEN 1 ELSE 0

(***************************************************************************)
(* Inputs of the driver: command lines, chart directories, file contents.  *)
(***************************************************************************)
\* argparse's result: --values-file given or not, --environment ("" when not
\* given), --strict.
CommandLines ==
    [values_file : BOOLEAN, environment : {"", "development", "production"},
     strict : BOOLEAN]

BaseValues == "values.yaml"

EnvValues(env) == "values-" \o env \o ".yaml"

\* The path given with --values-file: any file, inside the chart or not.
GivenValues == "<values-file>"

ChartEntries ==
    {"Chart.yaml", "values.yaml", "values-development.yaml", "values-production.yaml",
     "templates", "templates/deployment.yaml", "templates/service.yaml",
     "templates/configmap.yaml"}

TemplateEntries ==
    {"templates/deployment.yaml", "templates/service.yaml", "templates/configmap.yaml"}

\* Chart directories with at most MaxMissing entries missing (the files of a
\* missing templates directory go with it).
ChartDirs ==
    {d \in SUBSET ChartEntries :
        /\ ("templates" \notin d => d \cap TemplateEntries = {})
        /\ Cardinality(IF "templates" \in d THEN ChartEntries \ d
                       ELSE (ChartEntries \ d) \ TemplateEntries) <= MaxMissing}

\* A values document that draws no finding.
CleanValues ==
    [api |-> [replicaCount |-> 1,
              resources |-> [requests |-> [cpu |-> <<"5", "0", "0", "m">>,
                                           memory |-> <<"5", "1", "2", "M", "i">>],
                             limits |-> [cpu |-> <<"1">>,
                                         memory |-> <<"1", "G", "i">>]]],
     postgresql |-> [primary |-> [persistence |-> [enabled |-> TRUE,
                                                   size |-> <<"8", "G", "i">>]],
                     auth |-> [database |-> "gmc", postgresPassword |-> "s3cret"]],
     redis |-> [master |-> [persistence |-> [enabled |-> TRUE,
                                             size |-> <<"1", "G", "i">>]]],
     global |-> [storageClass |-> "standard"]]

\* Warnings only: no storage class, the default password.
WarningValues ==
    [api |-> CleanValues.api,
     postgresql |-> [primary |-> CleanValues.postgresql.primary,
                     auth |-> [database |-> "gmc", postgresPassword |-> "changeme"]],
     redis |-> CleanValues.redis]

\* No redis section (an Error), then a malformed CPU quantity in the
\* frontend's requests.
MalformedCpuValues ==
    [api |-> CleanValues.api,
     frontend |-> [resources |-> [requests |-> [cpu |-> <<"x">>]]],
     postgresql |-> CleanValues.postgresql,
     global |-> CleanValues.global]

DriverDocuments == {CleanValues, WarningValues, MalformedCpuValues}

\* What reading a values file gives: a chart file the directory lacks cannot be
\* opened; any other file fails to deserialize or holds a document.
ReadValues(name, dir) ==
    IF name \in ChartEntries /\ name \notin dir THEN {FileMissing}
    ELSE (IF name = GivenValues THEN {FileMissing} ELSE {})
         \cup {FileUnparsable} \cup {FileWith(d) : d \in DriverDocuments}

ControlPlane(mappings) == [role |-> "control-plane", extraPortMappings |-> mappings]

Worker == [role |-> "worker"]

\* What reading infrastructure/kind-cluster-config.yaml gives.
DriverKindFiles ==
    {FileMissing, FileUnparsable,
     FileWith([kind |-> "Cluster", nodes |-> <<ControlPlane(<<30080>>), Worker>>]),
     FileWith([kind |-> "Cluster", nodes |-> <<ControlPlane(<<>>)>>]),
     FileWith([kind |-> "Config", nodes |-> <<Worker>>])}

\* The values files main validates, in order: the given file; the environment's
\* file and then the base file; or every values*.yaml the glob finds.
GlobValues(dir) ==
    {n \in {"values.yaml", "values-development.yaml", "values-production.yaml"} : n \in dir}

Orderings(S) ==
    {q \in [1..Cardinality(S) -> S] : \A i, j \in 1..Cardinality(S) : i # j => q[i] # q[j]}

\* A variant that validates only the environment's file in --environment mode.
FilesToValidateWithoutBase(a, dir) ==
    IF a.values_file THEN {<<GivenValues>>}
    ELSE IF a.environment # "" THEN {<<EnvValues(a.environment)>>}
    ELSE Orderings(GlobValues(dir))

FilesToValidate(a, dir) ==
    IF a.values_file THEN {<<GivenValues>>}
    ELSE IF a.environment # "" THEN {<<EnvValues(a.environment), BaseValues>>}
    ELSE Orderings(GlobValues(dir))

Started(check, file) == [ev |-> "start", check |-> check, file |-> file]

Returned(check, file) == [ev |-> "return", check |-> check, file |-> file]

(***************************************************************************)
(* The driver, main().                                                     *)
(***************************************************************************)
Init ==
    /\ pc = "chart"
    /\ args \in CommandLines
    /\ chartDir \in ChartDirs
    /\ pending = <<>>
    /\ errors = <<>>
    /\ warnings = <<>>
    /\ trace = <<>>
    /\ lastRead = FileMissing
    /\ ret = TRUE
    /\ report = <<>>
    /\ exitStatus = <<>>
    /\ inp = <<>>
    /\ out = IntResult(0)

\* validator.validate_chart_structure()
ChartStructure ==
    /\ pc = "chart"
    /\ LET st == ValidateChartStructure(chartDir, Validator(errors, warnings))
       IN  /\ errors' = st.errors
           /\ warnings' = st.warnings
           /\ ret' = st.ret
    /\ trace' = trace \o <<Started("chart", ""), Returned("chart", "")>>
    /\ pc' = "kind"
    /\ UNCHANGED <<args, chartDir, pending, lastRead, report, exitStatus, inp, out>>

\* validator.validate_kind_config(), then the choice of the values files
KindConfig ==
    /\ pc = "kind"
    /\ \E file \in DriverKindFiles :
          LET st == ValidateKindConfig(file, Validator(errors, warnings))
          IN  /\ lastRead' = file
              /\ errors' = st.errors
              /\ warnings' = st.warnings
              /\ ret' = st.ret
    /\ trace' = trace \o <<Started("kind", ""), Returned("kind", "")>>
    /\ pending' \in FilesToValidate(args, chartDir)
    /\ pc' = IF pending' = <<>> THEN "report" ELSE "values"
    /\ UNCHANGED <<args, chartDir, report, exitStatus, inp, out>>

\* validator.validate_helm_values(values_file) for the next values file; an
\* exception that escapes it ends the process with a traceback and status 1
ValuesFile ==
    /\ pc = "values"
    /\ pending # <<>>
    /\ \E file \in ReadValues(Head(pending), chartDir) :
          LET st == ValidateHelmValues(file, Validator(errors, warnings))
          IN  /\ lastRead' = file
              /\ errors' = st.errors
              /\ warnings' = st.warnings
              /\ IF st.exc
                 THEN /\ pc' = "crashed"
                      /\ exitStatus' = <<1>>
                      /\ trace' = Append(trace, Started("values", Head(pending)))
                      /\ UNCHANGED <<ret, pending>>
                 ELSE /\ pc' = IF Tail(pending) = <<>> THEN "report" ELSE "values"
                      /\ trace' = trace \o <<Started("values", Head(pending)),
                                             Returned("values", Head(pending))>>
                      /\ ret' = st.ret
                      /\ pending' = Tail(pending)
                      /\ UNCHANGED exitStatus
    /\ UNCHANGED <<args, chartDir, report, inp, out>>

\* report = validator.generate_report(); print(report)
Report ==
    /\ pc = "report"
    /\ report' = <<GenerateReport(errors, warnings)>>
    /\ pc' = "exit"
    /\ UNCHANGED <<args, chartDir, pending, errors, warnings, trace, lastRead, ret,
                   exitStatus, inp, out>>

\* sys.exit(1) or sys.exit(0)
Exit ==
    /\ pc = "exit"
    /\ exitStatus' = <<ExitCode(errors, warnings, args.strict)>>
    /\ pc' = "exited"
    /\ UNCHANGED <<args, chartDir, pending, errors, warnings, trace, lastRead, ret,
                   report, inp, out>>

Next == ChartStructure \/ KindConfig \/ ValuesFile \/ Report \/ Exit

Spec == Init /\ [][Next]_vars

(***************************************************************************)
(* Properties of the driver (specification Spec).                          *)
(***************************************************************************)
\* C1: when main ends through sys.exit, the status is 1 if errors is
\* non-empty, or if --strict is set and warnings is non-empty, and 0
\* otherwise (so warnings alone give 0 without --strict and 1 with it).
C1_ExitStatus ==
    pc = "exited" =>
        /\ (errors # <<>> => exitStatus = <<1>>)
        /\ (errors = <<>> /\ warnings # <<>> /\ args.strict => exitStatus = <<1>>)
        /\ (errors = <<>> /\ warnings # <<>> /\ ~args.strict => exitStatus = <<0>>)
        /\ (errors = <<>> /\ warnings = <<>> => exitStatus = <<0>>)

\* A strict run with warnings and no error has exited with status 1.
C1_StrictWarningsOnly ==
    /\ pc = "exited"
    /\ errors = <<>>
    /\ warnings # <<>>
    /\ args.strict
    /\ exitStatus = <<1>>

\* C2: no exception escapes a validator, and a process that has ended has
\* printed the one report, holding all the findings accumulated.
C2_NoExceptionEscapes ==
    /\ pc # "crashed"
    /\ (exitStatus # <<>> =>
            /\ Len(report) = 1
            /\ report[1].errors = errors
            /\ report[1].warnings = warnings)

\* The files of the values validations that have the given event in the trace.
ValuesFilesWith(ev) ==
    LET hits == SelectSeq(trace, LAMBDA e : e.check = "values" /\ e.ev = ev)
    IN  [i \in 1..Len(hits) |-> hits[i].file]

EnvironmentMode == ~args.values_file /\ args.environment # ""

\* C3: in every mode the chart-structure check and then the cluster-bootstrap
\* check have both returned before the first values file is validated; in
\* --environment mode the environment's file is validated first, the base
\* values.yaml is the next thing validated once that validation has returned,
\* whatever it returned, and the report is not reached without both.
C3_StructuralChecksFirst ==
    /\ (ValuesFilesWith("start") # <<>> =>
            SubSeq(trace, 1, 4) = <<Started("chart", ""), Returned("chart", ""),
                                    Started("kind", ""), Returned("kind", "")>>)
    /\ (EnvironmentMode =>
            /\ ValuesFilesWith("start") \in
                   {<<>>, <<EnvValues(args.environment)>>,
                    <<EnvValues(args.environment), BaseValues>>}
            /\ (ValuesFilesWith("return") = <<EnvValues(args.environment)>>
                /\ ValuesFilesWith("start") = <<EnvValues(args.environment)>>
                    => pc = "values" /\ pending = <<BaseValues>>)
            /\ (pc \in {"report", "exit", "exited"} =>
                    ValuesFilesWith("return") =
                        <<EnvValues(args.environment), BaseValues>>))

\* In --environment mode both files were validated although the chart
\* structure had errors, the cluster-bootstrap check short-circuited and the
\* environment's file could not be read.
C3_BaseAfterFailures ==
    /\ EnvironmentMode
    /\ EnvValues(args.environment) \notin chartDir
    /\ \E i \in 1..Len(errors) : errors[i].tag = "Missing Kind cluster configuration file"
    /\ \E i \in 1..Len(errors) : errors[i].tag = "Missing required file"
    /\ ValuesFilesWith("return") = <<EnvValues(args.environment), BaseValues>>

\* C9: a file-level failure is local.  When the cluster-bootstrap file is
\* missing or unparsable, validate_kind_config appends exactly one Error and
\* nothing else and returns false; when a values file cannot be opened or
\* deserialized, validate_helm_values appends exactly one Error and nothing
\* else and returns false.  The earlier findings stay as they were and the
\* driver moves on to the remaining values files, or to the report.
C9_FileFailureIsLocal ==
    [][/\ (pc = "kind" /\ lastRead'.status # "ok" =>
              /\ Len(errors') = Len(errors) + 1
              /\ SubSeq(errors', 1, Len(errors)) = errors
              /\ errors'[Len(errors')].tag \in
                     {"Missing Kind cluster configuration file",
                      "Failed to parse Kind config"}
              /\ warnings' = warnings
              /\ ret' = FALSE
              /\ pc' = IF pending' = <<>> THEN "report" ELSE "values")
       /\ (pc = "values" /\ lastRead'.status # "ok" =>
              /\ Len(errors') = Len(errors) + 1
              /\ SubSeq(errors', 1, Len(errors)) = errors
              /\ errors'[Len(errors')].tag = "Failed to parse values file"
              /\ warnings' = warnings
              /\ ret' = FALSE
              /\ pending' = Tail(pending)
              /\ pc' = IF pending' = <<>> THEN "report" ELSE "values")
      ]_vars

\* A values file could not be read after findings were recorded, and another
\* values file remains to be validated.
C9_FailureThenNextFile ==
    /\ pc = "values"
    /\ pending # <<>>
    /\ lastRead.status # "ok"
    /\ ValuesFilesWith("return") # <<>>
    /\ warnings # <<>>
    /\ Len(errors) > 1
    /\ ret = FALSE

(***************************************************************************)
(* Validators and parsers called on their own: the argument is drawn in    *)
(* the initial state, with or without findings recorded earlier, and one   *)
(* action makes the call.                                                  *)
(***************************************************************************)
EarlierFinding == Finding("recorded earlier", "", 0)

PriorFindings == {<<>>, <<EarlierFinding>>}

CallInit(inputs) ==
    /\ pc = "call"
    /\ inp \in inputs
    /\ \E prior \in PriorFindings : errors = prior /\ warnings = prior
    /\ args = [values_file |-> FALSE, environment |-> "", strict |-> FALSE]
    /\ chartDir = {}
    /\ pending = <<>>
    /\ trace = <<>>
    /\ lastRead = FileMissing
    /\ ret = TRUE
    /\ report = <<>>
    /\ exitStatus = <<>>
    /\ out = IntResult(0)

\* The call of a validator returns, or raises.
CallEnds(st) ==
    /\ errors' = st.errors
    /\ warnings' = st.warnings
    /\ ret' = st.ret
    /\ pc' = IF st.exc THEN "raised" ELSE "returned"
    /\ UNCHANGED <<args, chartDir, pending, trace, lastRead, report, exitStatus, inp, out>>

\* Number of findings of a list with the given rule and service.
Count(findings, tag, svc) ==
    Cardinality({i \in 1..Len(findings) : findings[i].tag = tag /\ findings[i].svc = svc})

\* A mapping with key k bound to a value of S, or without the key.
Optional(k, S) == {EmptyDict} \cup {k :> v : v \in S}

\* Every string of at most n characters of the alphabet.
Alphabet == {"0", "1", "2", "M", "m", "G", "g", "I", "i", "x"}

Strings(n) == UNION {[1..k -> Alphabet] : k \in 0..n}

(***************************************************************************)
(* _parse_memory_size on every string of at most MaxLen characters.        *)
(***************************************************************************)
InitParseMemory == CallInit(Strings(MaxLen))

CallParseMemory ==
    /\ pc = "call"
    /\ out' = ParseMemorySize(inp)
    /\ pc' = IF out'.kind = "raise" THEN "raised" ELSE "returned"
    /\ UNCHANGED <<args, chartDir, pending, errors, warnings, trace, lastRead, ret,
                   report, exitStatus, inp>>

SpecParseMemory == InitParseMemory /\ [][CallParseMemory]_vars

\* The spellings of the suffixes, in any letter case.
MiSuffixes == {<<a, b>> : a \in {"M", "m"}, b \in {"I", "i"}}
GiSuffixes == {<<a, b>> : a \in {"G", "g"}, b \in {"I", "i"}}
MSuffixes == {<<"M">>, <<"m">>}
GSuffixes == {<<"G">>, <<"g">>}

\* C10: parseMemory of a decimal integer n followed by a suffix, in any letter
\* case, is n for Mi and M and n * 1024 for Gi and G; of an unsuffixed decimal
\* integer n it is n; of the empty string it is 0.
C10_ParseMemoryTable ==
    pc # "call" =>
        /\ (inp = <<>> => out = IntResult(0))
        /\ (IsDigits(inp) => out = IntResult(DigitsValue(inp)))
        /\ \A suf \in MiSuffixes \cup MSuffixes :
              EndsWith(inp, suf) /\ IsDigits(DropLast(inp, Len(suf)))
                  => out = IntResult(DigitsValue(DropLast(inp, Len(suf))))
        /\ \A suf \in GiSuffixes \cup GSuffixes :
              EndsWith(inp, suf) /\ IsDigits(DropLast(inp, Len(suf)))
                  => out = IntResult(DigitsValue(DropLast(inp, Len(suf))) * 1024)

\* A lower-case two-letter suffix was parsed: "2gi" gave 2048.
C10_LowerCaseGi ==
    /\ pc = "returned"
    /\ inp = <<"2", "g", "i">>
    /\ out = IntResult(2048)

(***************************************************************************)
(* _validate_api_config, which calls _validate_resource_ratio.             *)
(***************************************************************************)
RatioCpuStrings ==
    {<<"0">>, <<"2", "5", "0", "m">>, <<"5", "0", "0", "m">>, <<"0", ".", "5">>,
     <<"2">>, <<"2", "0", "0", "1", "m">>, <<"x">>}

RatioMemoryStrings ==
    {<<"5", "1", "2", "M", "i">>, <<"5", "1", "2", "m">>, <<"1", "G", "i">>,
     <<"2", "G", "i">>, <<"2", "0", "4", "9", "M", "i">>, <<"x", "G", "i">>}

RatioQuantities ==
    {c @@ m : c \in Optional("cpu", RatioCpuStrings),
              m \in Optional("memory", RatioMemoryStrings)}

ApiConfigs ==
    {rc @@ hc @@ [resources |-> [requests |-> rq, limits |-> lm]] :
        rc \in Optional("replicaCount", {0}),
        hc \in Optional("healthCheck", {[enabled |-> TRUE]}),
        rq \in RatioQuantities, lm \in RatioQuantities}
    \cup {EmptyDict,
          [replicaCount |-> 2, healthCheck |-> [enabled |-> TRUE, path |-> "/health"]],
          [resources |-> [requests |-> [cpu |-> <<"x">>]]],
          [resources |-> [limits |-> [cpu |-> <<"x">>]]]}

InitApi == CallInit(ApiConfigs)

CallApi ==
    /\ pc = "call"
    /\ CallEnds(ValidateApiConfig(inp, Validator(errors, warnings)))

SpecApi == InitApi /\ [][CallApi]_vars

\* What the claim says of one resource: one Error and no Warning below the
\* request, one Warning and no Error above four times the request, nothing in
\* between.
RatioOutcome(req, lim, what) ==
    LET nErrors == Count(errors, what \o " limit is less than request", "api")
        nWarnings == Count(warnings, what \o " limit is much higher than request", "api")
    IN  /\ (lim < req => nErrors = 1 /\ nWarnings = 0)
        /\ (lim > 4 * req => nWarnings = 1 /\ nErrors = 0)
        /\ (req <= lim /\ lim <= 4 * req => nErrors = 0 /\ nWarnings = 0)

BothGiven(config, what) ==
    /\ Has(config, "resources")
    /\ Has(config["resources"], "requests")
    /\ Has(config["resources"], "limits")
    /\ Has(config["resources"]["requests"], what)
    /\ Has(config["resources"]["limits"], what)

\* C4: for a service with requests and limits, and for each of CPU and memory
\* on its own where both are given, in millicores and MB: exactly one Error
\* and no Warning if limit < request, exactly one Warning and no Error if
\* limit > 4 x request, no finding in between.
C4_ResourceRatio ==
    pc = "returned" =>
        /\ (BothGiven(inp, "cpu") =>
                RatioOutcome(ParseCpuValue(inp["resources"]["requests"]["cpu"]).val,
                             ParseCpuValue(inp["resources"]["limits"]["cpu"]).val, "CPU"))
        /\ (BothGiven(inp, "memory") =>
                RatioOutcome(ParseMemorySize(inp["resources"]["requests"]["memory"]).val,
                             ParseMemorySize(inp["resources"]["limits"]["memory"]).val,
                             "Memory"))

\* A CPU limit below the request and a memory limit above four times the
\* request: one Error for the CPU and one Warning for the memory.
C4_CpuErrorMemoryWarning ==
    /\ pc = "returned"
    /\ BothGiven(inp, "cpu")
    /\ BothGiven(inp, "memory")
    /\ inp["resources"]["requests"]["cpu"] = <<"5", "0", "0", "m">>
    /\ inp["resources"]["limits"]["cpu"] = <<"2", "5", "0", "m">>
    /\ Count(errors, "CPU limit is less than request", "api") = 1
    /\ Count(warnings, "Memory limit is much higher than request", "api") = 1

(***************************************************************************)
(* _validate_resource_limits.                                              *)
(***************************************************************************)
\* The requests mappings a service may carry: totals of 4000m and 8192 MB
\* are reached exactly, and passed by 1.
CapacityRequests ==
    {EmptyDict,
     [cpu |-> <<"2">>],
     [cpu |-> <<"2", "0", "0", "0", "m">>, memory |-> <<"4", "G", "i">>],
     [cpu |-> <<"1", "m">>, memory |-> <<"4", "0", "9", "6", "M", "i">>],
     [memory |-> <<"1", "M">>],
     [cpu |-> <<"1">>, memory |-> <<"x">>]}

\* A service holding its resources directly (api, frontend).
DirectServices ==
    {EmptyDict, [resources |-> EmptyDict]}
    \cup {[resources |-> [requests |-> r]] : r \in CapacityRequests}

\* A service holding its resources under a sub-mapping (primary, master).
NestedServices(sub) ==
    {EmptyDict, sub :> EmptyDict}
    \cup {sub :> [resources |-> [requests |-> r]] : r \in CapacityRequests}

CapacityDocuments ==
    {a @@ f @@ p @@ r :
        a \in Optional("api", DirectServices),
        f \in Optional("frontend", DirectServices),
        p \in Optional("postgresql", NestedServices("primary")),
        r \in Optional("redis", NestedServices("master"))}

InitLimits == CallInit(CapacityDocuments)

CallLimits ==
    /\ pc = "call"
    /\ CallEnds(ValidateResourceLimits(inp, Validator(errors, warnings)))

SpecLimits == InitLimits /\ [][CallLimits]_vars

\* resources.requests of the four services as the claim names them; a service
\* that is absent or has no requests gives the empty mapping.
ClaimedRequests(values) ==
    <<Get(Get(Get(values, "api", EmptyDict), "resources", EmptyDict),
          "requests", EmptyDict),
      Get(Get(Get(values, "frontend", EmptyDict), "resources", EmptyDict),
          "requests", EmptyDict),
      Get(Get(Get(Get(values, "postgresql", EmptyDict), "primary", EmptyDict),
              "resources", EmptyDict), "requests", EmptyDict),
      Get(Get(Get(Get(values, "redis", EmptyDict), "master", EmptyDict),
              "resources", EmptyDict), "requests", EmptyDict)>>

RECURSIVE ClaimedCpu(_)
ClaimedCpu(requests) ==
    IF requests = <<>> THEN 0
    ELSE (IF Has(Head(requests), "cpu") THEN ParseCpuValue(Head(requests)["cpu"]).val ELSE 0)
         + ClaimedCpu(Tail(requests))

RECURSIVE ClaimedMemory(_)
ClaimedMemory(requests) ==
    IF requests = <<>> THEN 0
    ELSE (IF Has(Head(requests), "memory")
          THEN ParseMemorySize(Head(requests)["memory"]).val ELSE 0)
         + ClaimedMemory(Tail(requests))

CpuCapacityTag == "Total CPU requests may exceed capacity"

MemoryCapacityTag == "Total memory requests may exceed capacity"

\* C5: the CPU and memory totals are the sums of resources.requests over api,
\* frontend, postgresql.primary and redis.master (0 for a service that is
\* absent or has no requests); exactly one CPU Warning, carrying the total, is
\* appended if and only if the CPU total is above 4000, exactly one memory
\* Warning if and only if the memory total is above 8192, and no Error ever.
C5_AggregateCapacity ==
    pc = "returned" =>
        /\ Count(warnings, CpuCapacityTag, "") =
               (IF ClaimedCpu(ClaimedRequests(inp)) > 4000 THEN 1 ELSE 0)
        /\ \A i \in 1..Len(warnings) :
               warnings[i].tag = CpuCapacityTag =>
                   warnings[i].num = ClaimedCpu(ClaimedRequests(inp))
        /\ Count(warnings, MemoryCapacityTag, "") =
               (IF ClaimedMemory(ClaimedRequests(inp)) > 8192 THEN 1 ELSE 0)
        /\ errors \in PriorFindings

\* Requests of 2 + 2000m + 1m cores pass the CPU budget by one millicore while
\* the memory total is exactly 8192 MB: one CPU Warning of 4001, no memory one.
C5_JustOverCpuBudget ==
    /\ pc = "returned"
    /\ ClaimedCpu(ClaimedRequests(inp)) = 4001
    /\ ClaimedMemory(ClaimedRequests(inp)) = 8192
    /\ ~Has(inp, "api")
    /\ Count(warnings, CpuCapacityTag, "") = 1
    /\ Count(warnings, MemoryCapacityTag, "") = 0

(***************************************************************************)
(* validate_kind_config.                                                   *)
(***************************************************************************)
KindNodes ==
    {ControlPlane(<<30080>>), ControlPlane(<<>>), [role |-> "control-plane"], Worker,
     EmptyDict}

KindDocuments ==
    {k @@ n : k \in Optional("kind", {"Cluster", "Config"}),
              n \in Optional("nodes", UNION {[1..len -> KindNodes] : len \in 0..MaxNodes})}

KindFiles == {FileMissing, FileUnparsable} \cup {FileWith(d) : d \in KindDocuments}

InitKind == CallInit(KindFiles)

CallKind ==
    /\ pc = "call"
    /\ CallEnds(ValidateKindConfig(inp, Validator(errors, warnings)))

SpecKind == InitKind /\ [][CallKind]_vars

\* The declared nodes of a cluster-bootstrap document.
DeclaredNodes(config) == IF Has(config, "nodes") THEN config["nodes"] ELSE <<>>

\* Control-plane nodes that have no extraPortMappings entries.
UnmappedControlPlanes(nodes) ==
    {i \in 1..Len(nodes) :
        /\ Has(nodes[i], "role")
        /\ nodes[i]["role"] = "control-plane"
        /\ (Has(nodes[i], "extraPortMappings") => nodes[i]["extraPortMappings"] = <<>>)}

HasControlPlane(nodes) ==
    \E i \in 1..Len(nodes) : Has(nodes[i], "role") /\ nodes[i]["role"] = "control-plane"

\* C6: for a cluster-bootstrap document that loads, validate_kind_config
\* appends an Error if kind is not "Cluster", an Error if no node is declared,
\* an Error if no declared node is a control-plane, and one Warning per
\* control-plane node without port mappings; so kind "Cluster" with a
\* control-plane node gives no Error of this check.
C6_KindConfig ==
    pc = "returned" /\ inp.status = "ok" =>
        LET config == inp.doc
            nodes == DeclaredNodes(config)
            isCluster == Has(config, "kind") /\ config["kind"] = "Cluster"
        IN  /\ Count(errors, "Kind config must be of type 'Cluster'", "") =
                   (IF isCluster THEN 0 ELSE 1)
            /\ Count(errors, "At least one node must be defined", "") =
                   (IF nodes = <<>> THEN 1 ELSE 0)
            /\ Count(errors, "At least one control-plane node must be defined", "") =
                   (IF HasControlPlane(nodes) THEN 0 ELSE 1)
            /\ Count(warnings, "No port mappings defined for control plane", "") =
                   Cardinality(UnmappedControlPlanes(nodes))
            /\ Len(warnings) - Cardinality(UnmappedControlPlanes(nodes)) \in {0, 1}
            /\ (isCluster /\ HasControlPlane(nodes) => errors \in PriorFindings)

\* kind "Cluster" with one control-plane node and no extraPortMappings: no
\* Error and exactly one Warning.
C6_OneUnmappedControlPlane ==
    /\ pc = "returned"
    /\ inp = FileWith([kind |-> "Cluster", nodes |-> <<[role |-> "control-plane"]>>])
    /\ errors = <<>>
    /\ Len(warnings) = 1

(***************************************************************************)
(* _validate_database_config, the size being any string of at most MaxLen  *)
(* characters.                                                             *)
(***************************************************************************)
DatabasePersistences ==
    {e @@ z : e \in Optional("enabled", {TRUE, FALSE}),
              z \in Optional("size", Strings(MaxLen))}

DatabaseConfigs ==
    {[primary |-> [persistence |-> p], auth |-> [database |-> "gmc"]] :
        p \in DatabasePersistences}
    \cup {EmptyDict, [primary |-> EmptyDict],
          [auth |-> [postgresPassword |-> "changeme"]]}

InitDatabase == CallInit(DatabaseConfigs)

CallDatabase ==
    /\ pc = "call"
    /\ CallEnds(ValidateDatabaseConfig(inp, Validator(errors, warnings)))

SpecDatabase == InitDatabase /\ [][CallDatabase]_vars

\* postgresql.primary.persistence, the empty mapping when absent.
ClaimedPersistence(db_config) ==
    Get(Get(db_config, "primary", EmptyDict), "persistence", EmptyDict)

\* C7: with persistence enabled, "Invalid database storage size" is appended
\* if and only if the size is missing or empty or parseStorage gives the absent
\* result; a size that parses to a number, zero included, draws no such Error;
\* with persistence not enabled the Error is never appended.
C7_InvalidStorageSize ==
    pc = "returned" =>
        LET persistence == ClaimedPersistence(inp)
            size == Get(persistence, "size", <<>>)
            unparsed == size = <<>> \/ ParseStorageSize(size).kind = "None"
        IN  Count(errors, "Invalid database storage size", "") =
                (IF Enabled(persistence) /\ unparsed THEN 1 ELSE 0)

(***************************************************************************)
(* _validate_storage_config.                                               *)
(***************************************************************************)
\* Sizes that reach 100 GB exactly (60Gi + 40Gi) and pass it by 1 MB.
StorageStrings ==
    {<<"6", "0", "G", "i">>, <<"4", "0", "g">>, <<"1", "M", "i">>, <<"0">>, <<"x">>}

StoragePersistences ==
    {EmptyDict, [enabled |-> FALSE, size |-> <<"6", "0", "G", "i">>], [enabled |-> TRUE]}
    \cup {[enabled |-> TRUE, size |-> z] : z \in StorageStrings}

StorageDocuments ==
    {g @@ p @@ r @@ a :
        g \in Optional("global", {EmptyDict, [storageClass |-> ""],
                                  [storageClass |-> "standard"]}),
        p \in Optional("postgresql",
                       {[primary |-> [persistence |-> x]] : x \in StoragePersistences}),
        r \in Optional("redis",
                       {[master |-> [persistence |-> x]] : x \in StoragePersistences}),
        a \in Optional("ai",
                       {[vllm |-> e @@ [persistence |-> x]] :
                            e \in Optional("enabled", {TRUE, FALSE}),
                            x \in {[enabled |-> FALSE, size |-> <<"6", "0", "G", "i">>],
                                   [enabled |-> TRUE, size |-> <<"6", "0", "G", "i">>],
                                   [enabled |-> TRUE, size |-> <<"1", "M", "i">>]}})}

InitStorage == CallInit(StorageDocuments)

CallStorage ==
    /\ pc = "call"
    /\ CallEnds(ValidateStorageConfig(inp, Validator(errors, warnings)))

SpecStorage == InitStorage /\ [][CallStorage]_vars

\* Size in MB of a volume as the claim counts it: only when its persistence is
\* enabled and its size parses.
ClaimedVolume(persistence) ==
    IF Enabled(persistence) /\ Has(persistence, "size")
       /\ ParseStorageSize(persistence["size"]).kind = "int"
    THEN ParseStorageSize(persistence["size"]).val
    ELSE 0

\* The total as the claim computes it: the ai.vllm volume counts only if the
\* model-serving service is enabled.
ClaimedStorageTotal(values) ==
    ClaimedVolume(Get(Get(Get(values, "postgresql", EmptyDict), "primary", EmptyDict),
                      "persistence", EmptyDict))
    + ClaimedVolume(Get(Get(Get(values, "redis", EmptyDict), "master", EmptyDict),
                        "persistence", EmptyDict))
    + (IF Enabled(Get(Get(values, "ai", EmptyDict), "vllm", EmptyDict))
       THEN ClaimedVolume(Get(Get(Get(values, "ai", EmptyDict), "vllm", EmptyDict),
                              "persistence", EmptyDict))
       ELSE 0)

\* C8: the total is the sum in MB of the volumes of postgresql.primary and
\* redis.master, each only when its persistence is enabled and its size
\* parses, plus the ai.vllm volume only if the model-serving service is
\* enabled; one large-storage Warning is appended if and only if the total is
\* above 100 x 1024 MB, and one Warning if and only if global.storageClass is
\* unset or empty.
C8_StorageTotal ==
    pc = "returned" =>
        /\ Count(warnings, "Total storage requests are quite large", "") =
               (IF ClaimedStorageTotal(inp) > 100 * 1024 THEN 1 ELSE 0)
        /\ Count(warnings, "Global storage class not specified", "") =
               (IF Has(inp, "global") /\ Has(inp["global"], "storageClass")
                   /\ inp["global"]["storageClass"] # ""
                THEN 0 ELSE 1)

====
